---------------------------- MODULE Spec2Model ----------------------------
(***************************************************************************)
(* The step sequencer of core/Sequencer.js (a lookahead scheduler driven   *)
(* by the audio clock) together with its listeners, and the audio          *)
(* processors of worklets/: the BBD chorus, the Korg filter and the Moog   *)
(* ladder.                                                                 *)
(*                                                                         *)
(* Time is counted in ticks of 1/800 s (1.25 ms), so that every duration   *)
(* the model uses is a whole number: 0.05 s = 40, 0.1 s = 80, 25 ms = 20,  *)
(* and a sixteenth note at b bpm lasts (60/b)/4 s = 12000/b ticks.  Swing  *)
(* is counted in tenths (0.5 = 5).  Arithmetic is exact; the rounding of   *)
(* IEEE doubles is not modelled.                                           *)
(*                                                                         *)
(* JavaScript runs one handler at a time.  A handler that calls the        *)
(* listeners is split at each listener call, because a listener is code    *)
(* of the caller and may call back into the sequencer before it returns.   *)
(* The listeners of the model call stop(), the bpm and swing setters,      *)
(* onStep() and offStep(), and only while they handle a step event;        *)
(* start() and the steps setter are called between handlers.  `stack`      *)
(* holds the forEach calls in progress, innermost last.                    *)
(*                                                                         *)
(* The interval timer runs on the wall clock and _schedule reads the       *)
(* audio clock, which stands still while the context is suspended: the     *)
(* timer may fire any number of times between two advances of `clock`.     *)
(* The audio clock is read as constant within one handler.                 *)
(*                                                                         *)
(* The processors run in the audio thread, one call of process() at a      *)
(* time; `call` is the call in progress, stepped one sample of its loop    *)
(* at a time.  Their numbers are fixed-point integers, each with the unit  *)
(* named where it is defined.  The chorus is fed the ramp 1, 2, 3, ... so  *)
(* that every cell of the delay line tells when it was written, and its    *)
(* arithmetic is exact but for Math.sin, which is Bhaskara's rational      *)
(* approximation.  The model's sample rate is 1000 Hz (one sample per      *)
(* millisecond): the delay line has 31 cells where the browser's has 1324  *)
(* or more.  The filters compute in thousandths (Korg) and hundredths      *)
(* (Moog), every product rounded to the nearest unit, where the code       *)
(* rounds to the nearest double; Math.tan is a table of the three values   *)
(* the model uses.  The locals s1..s4 and y1..y4 of process() and the      *)
(* fields they are loaded from and stored to are one variable each, and    *)
(* the fields _oldX, _oldY1.._oldY4, which are never assigned anything     *)
(* but their own value, are left out.                                      *)
(***************************************************************************)
EXTENDS Bags, Integers, Sequences, FiniteSets, TLC

\* ------------------------------------------------------------- constants
TicksPerSecond == 800
LeadIn == 40              \* 0.05 s, start()
ScheduleAheadTime == 80   \* 0.1 s
LookaheadInterval == 20   \* 25 ms
MinBpm == 20
MaxBpm == 400
MinSwing == 0
MaxSwing == 5             \* 0.5
SwingScale == 10
DefaultBpm == 120
DefaultSteps == 16
Sentinel == -1            \* step of the reset signal of stop()

\* ---------------------------------------------------------------- bounds
MaxTime == 80             \* the audio clock stops advancing here
MaxTimeFixed == 1600      \* the same, for the fixed-tempo specification
MaxListeners == 1         \* length of the listener array
MaxStarts == 2            \* calls of start() that start a run
MaxStartsFixed == 1       \* the same, for the specifications of one run
MaxRegistered == 2        \* length of the listener array, where listeners
                          \* register listeners

\* ---------------------------------------------------------------- inputs
BpmInputs == {120, 400, 1000}
SwingInputs == {0, 5, 8}
StepsInputs == {16, 32}
ClockSteps == {LookaheadInterval, 3 * LookaheadInterval}
ClockStepsFixed == {5 * LookaheadInterval, 20 * LookaheadInterval}
Fns == {1, 2}
NoTimer == 0

\* The number NaN.  Every value of the model is an integer, so NaN is an
\* integer that no input and no result of the model's arithmetic equals.
NaN == -2147483647

\* Numbers assigned to bpm and to swing (in tenths) from outside: below, in
\* and above the range, and NaN.
AnyBpm == {NaN, -20, 0} \cup {20 * k : k \in 1..25}
AnySwing == {NaN, -3, 50} \cup (0..6)

VARIABLES
  bpm, steps, swing, currentStep, nextStepTime, running, timerID, listeners,
  timers,        \* the interval timers that are live in the host
  clock,         \* ctx.currentTime
  pc,            \* "idle", or the handler that is running: "schedule", "stop"
  stack,         \* the forEach calls in progress, innermost last
  last,          \* the last step event _schedule emitted, and how it follows
                 \* the one before it
  maxEmitted,    \* the largest time of a step event emitted so far, -1 if none
  emittedInRun,  \* a step event was emitted since the last start()
  delivered,     \* the last call of a listener
  starts,        \* the number of runs started
  startNoop,     \* start() found the sequencer running, and neither the
                 \* timer, the clock nor stop() has acted since
  emittedInTick  \* step events emitted by the call of _schedule in progress

VARIABLES
  bufSize, buf1, buf2, writePos, lfoPhase1, lfoPhase2,   \* BBDChorusProcessor
  s1, s2, s3, s4,                                        \* KorgFilterProcessor
  y1, y2, y3, y4,                                        \* MoogLadderProcessor
  call,          \* the call of process() in progress
  done,          \* the last call of process() that returned
  tap,           \* the last sample the chorus processed
  probe,         \* the last call of _readInterp from outside process()
  ftap,          \* the last sample a filter processed
  fed            \* the number of samples the processor has read

VARIABLES
  ramps,         \* the voice triggered last, its controls, and the targets of
                 \* the exponential ramps it scheduled
  workletReady,  \* this._workletReady of each synth
  activeNotes,   \* Minimoog._activeNotes: the keys of the Map, in the order
                 \* of their insertion
  voices,        \* Juno106._voices
  voiceOrder,    \* Juno106._voiceOrder
  pendingOn,     \* the calls of noteOn that await _initAudio: a bag of
                 \* pairs of synth and note
  released,      \* the notes of the voices that the last call released
  sounding,      \* the voices started and not released: a bag of pairs of
                 \* synth and note
  offLast,       \* the synths and notes whose last call was noteOff
  noteOns,       \* the calls of noteOn so far, where they are counted
  ohGain,        \* HiHat808._ohGain: the place of the gain node in ohEnvs,
                 \* 0 for null
  ohStopTime,    \* HiHat808._ohStopTime
  ohEnvs,        \* the gain envelopes of the open hats triggered so far
  hatClock,      \* the time of the step whose instruments are triggered
  chAt,          \* the time of the last closed hat, -1 if none
  chSeen,        \* the number of open hats triggered before the last closed hat
  pattern,       \* TR808._pattern: the pairs of instrument and step that are on
  lastStep,      \* TR808._lastStep
  playing,       \* the steps whose pads are shown as the playing step
  cbLevel,       \* the level of the cowbell, in tenths
  heard,         \* the last step event the listener of the TR808 was called
                 \* with, and the voices it triggered
  events,        \* the number of step events so far
  enabled,       \* PadButton._enabled
  accent,        \* PadButton._accent
  active,        \* PadButton._active
  reported,      \* the argument of the last call of PadButton.onChange
  changes,       \* the number of calls of PadButton.onChange
  lastOp         \* the last event or call the pad has handled

prog == <<bpm, steps, swing, currentStep, nextStepTime, running, timerID, listeners>>
host == <<timers, clock>>
emits == <<last, maxEmitted, emittedInTick>>
hist == <<emits, emittedInRun, delivered, starts, startNoop>>
sequencer == <<prog, host, pc, stack, hist>>
chorus == <<bufSize, buf1, buf2, writePos, lfoPhase1, lfoPhase2>>
korg == <<s1, s2, s3, s4>>
moog == <<y1, y2, y3, y4>>
filters == <<korg, moog, ftap>>
audio == <<call, done, tap, probe, fed>>
dsp == <<chorus, filters, audio>>
synths == <<workletReady, activeNotes, voices, voiceOrder, pendingOn, released,
            sounding, offLast, noteOns>>
hihat == <<ohGain, ohStopTime, ohEnvs, hatClock, chAt, chSeen>>
tr808 == <<pattern, lastStep, playing, cbLevel, heard, events>>
pad == <<enabled, accent, active, reported, changes, lastOp>>
app == <<ramps, synths, hihat, tr808, pad>>
vars == <<sequencer, dsp, app>>

\* --------------------------------------------------------------- helpers
\* Math.max and Math.min: NaN if an argument is NaN.
Max(a, b) == IF a = NaN \/ b = NaN THEN NaN ELSE IF a > b THEN a ELSE b
Min(a, b) == IF a = NaN \/ b = NaN THEN NaN ELSE IF a < b THEN a ELSE b

clamp(v, lo, hi) == Max(lo, Min(hi, v))

\* An eighth note instead of a sixteenth.
StepDurationOf_Eighth(b) == (30 * TicksPerSecond) \div b

StepDurationOf(b) == (15 * TicksPerSecond) \div b

StepDuration == StepDurationOf(bpm)

SwingOffset(step) ==
  IF swing > 0 /\ step % 2 = 1 THEN (StepDuration * swing) \div SwingScale ELSE 0

NoStep == Sentinel - 1    \* no event yet

NoEvent ==
  [step |-> NoStep, time |-> -1, off |-> 0, steps |-> 0, first |-> FALSE,
   live |-> FALSE, prevStep |-> NoStep, prevSteps |-> 0, gap |-> 0]

NoCall == [fn |-> 0, step |-> NoStep, running |-> FALSE]

\* A forEach from the last listener to the first.
Frame_Reversed(step, t) ==
  [step |-> step, time |-> t, all |-> listeners,
   rest |-> [i \in 1..Len(listeners) |-> listeners[Len(listeners) + 1 - i]],
   served |-> <<>>]

Frame(step, t) ==
  [step |-> step, time |-> t, all |-> listeners, rest |-> listeners, served |-> <<>>]

Top == stack[Len(stack)]

Pop == SubSeq(stack, 1, Len(stack) - 1)

FreshTimer == CHOOSE i \in 1..(Cardinality(timers) + 1) : i \notin timers

\* ------------------------------------------------- the audio processors
SampleRate == 1000        \* sampleRate, in Hz
BlockLen == 4             \* samples in one call of process()
MaxSamples == 36          \* samples a processor reads in all

\* --------------------------------------------------------- the BBD chorus
MaxDelayMs == 30
BaseDelayMs1 == 15
BaseDelayMs2 == 8
SwingMs1 == 6
SwingMs2 == 4
PhaseSteps == 200         \* an LFO phase is counted in units of 2 pi / 200
LfoScale == 100           \* a value of Math.sin is counted in hundredths
DepthScale == 10          \* depth and mode are counted in tenths
MsScale == LfoScale * DepthScale      \* a delay in ms is counted in 1/1000 ms
FracScale == MsScale * 1000           \* a delay in samples in 1/1000000 sample,
                                      \* and a value read from the delay line
OutScale == 4 * FracScale             \* an output sample

ModeInputs == {0, 4, 10, 15, 20}      \* 0, 0.4, 1, 1.5, 2
RateInputs == {5, 10}                 \* Hz
DepthInputs == {0, 6, 10}             \* 0, 0.6, 1

\* Math.ceil(sampleRate * maxDelayMs / 1000) + 1
BufSizeOf(sr) == ((sr * MaxDelayMs + 999) \div 1000) + 1

\* Math.round of a number counted in tenths
Round(m) == (m + (DepthScale \div 2)) \div DepthScale

\* Math.sin of a phase in [0, 2 pi)
Sin(p) ==
  LET h == PhaseSteps \div 2
      q == IF p < h THEN p ELSE p - h
      b == (16 * q * (h - q) * LfoScale) \div (5 * h * h - 4 * q * (h - q))
  IN IF p < h THEN b ELSE -b

\* (2 * Math.PI * rate) / SR
LfoInc(rate) == (PhaseSteps * rate) \div SampleRate

\* a % n of JavaScript: the remainder has the sign of a
Rem(a, n) == IF a >= 0 THEN a % n ELSE -((-a) % n)

\* buf[i] of a Float32Array: undefined (NaN in arithmetic) outside the array
At(buf, i) == IF i \in 0..(Len(buf) - 1) THEN buf[i + 1] ELSE NaN

\* _readInterp without the correction of a negative remainder.
ReadInterp_NoWrap(buf, wp, delaySamples) ==
  LET ri == wp * FracScale - delaySamples
      fl == ri \div FracScale
      i0 == Rem(fl, bufSize)
      i1 == Rem(i0 + 1, bufSize)
      frac == ri - fl * FracScale
      b0 == At(buf, i0)
      b1 == At(buf, i1)
  IN [d |-> delaySamples, wp |-> wp, i0 |-> i0, i1 |-> i1, frac |-> frac,
      value |-> IF b0 = NaN \/ b1 = NaN THEN NaN
                ELSE b0 * (FracScale - frac) + b1 * frac]

\* _readInterp(buf, writePos, delaySamples): the two indices, the fraction
\* and the value returned.
ReadInterp(buf, wp, delaySamples) ==
  LET ri == wp * FracScale - delaySamples
      fl == ri \div FracScale
      i0 == Rem(Rem(fl, bufSize) + bufSize, bufSize)
      i1 == Rem(i0 + 1, bufSize)
      frac == ri - fl * FracScale
      b0 == At(buf, i0)
      b1 == At(buf, i1)
  IN [d |-> delaySamples, wp |-> wp, i0 |-> i0, i1 |-> i1, frac |-> frac,
      value |-> IF b0 = NaN \/ b1 = NaN THEN NaN
                ELSE b0 * (FracScale - frac) + b1 * frac]

NoRead == [d |-> 0, wp |-> 0, i0 |-> 0, i1 |-> 0, frac |-> 0, value |-> 0]

\* A delay that follows the phase of the LFO instead of its sine.
DelayMs_Phase(base, swingMs, phase, depth) ==
  base * MsScale + ((phase * 628) \div PhaseSteps) * swingMs * depth

\* baseDelayMs + lfoVal * swingMs, with swingMs = 6 * depth or 4 * depth
DelayMs(base, swingMs, phase, depth) ==
  base * MsScale + Sin(phase) * swingMs * depth

\* delMs * SR / 1000
DelaySamples(delMs) == delMs * SampleRate

\* x * 0.5 + wet * 0.5
Mix(x, wet) == IF wet = NaN THEN NaN ELSE 2 * FracScale * x + 2 * wet

\* A chorus whose bypass is the single line with the dry signal mixed in.
ChorusOut_NoBypass(mode, stereo, x, r1, r2) ==
  IF mode \in {0, 1}
    THEN [L |-> Mix(x, r1.value), R |-> Mix(x, r1.value)]
    ELSE IF stereo
      THEN [L |-> Mix(x, r1.value), R |-> Mix(x, r2.value)]
      ELSE LET m == IF r1.value = NaN \/ r2.value = NaN THEN NaN
                    ELSE (Mix(x, r1.value) + Mix(x, r2.value)) \div 2
           IN [L |-> m, R |-> m]

\* outL[i] and outR[i]; outR is outL when the output has one channel.
ChorusOut(mode, stereo, x, r1, r2) ==
  IF mode = 0
    THEN [L |-> OutScale * x, R |-> OutScale * x]
    ELSE IF mode = 1
      THEN [L |-> Mix(x, r1.value), R |-> Mix(x, r1.value)]
      ELSE IF stereo
        THEN [L |-> Mix(x, r1.value), R |-> Mix(x, r2.value)]
        ELSE LET m == IF r1.value = NaN \/ r2.value = NaN THEN NaN
                      ELSE (Mix(x, r1.value) + Mix(x, r2.value)) \div 2
             IN [L |-> m, R |-> m]

Idle ==
  [proc |-> "none", i |-> 0, len |-> 0, mode |-> 0, lfoInc |-> 0, depth |-> 0,
   stereo |-> FALSE, written |-> 0]

NoneDone == [proc |-> "none", requested |-> 0, written |-> 0]

NoTap ==
  [mode |-> 0, stereo |-> FALSE, x |-> 0, outL |-> 0, outR |-> 0,
   del1 |-> 0, del2 |-> 0, r1 |-> NoRead, r2 |-> NoRead]

\* ------------------------------------------------------------ the filters
FilterBlockLen == 2       \* samples in one call of process() of a filter
MaxFilterSamples == 4     \* samples a filter reads in all

CutoffInputs == {20, 250, 20000}      \* Hz
PeakInputs == {0, 4}                  \* peak, and resonance
AnyCutoff == {-100, 20, 20000}        \* Hz, within the descriptor's range or not
AnyPeak == {0, 4, 8}                  \* within the descriptor's range or not
MinCutoff == 20                       \* minValue of cutoff
MaxPeak == 4                          \* maxValue of peak and of resonance

\* n / d rounded to the nearest integer
RoundDiv(n, d) ==
  IF n >= 0 THEN (2 * n + d) \div (2 * d) ELSE -((2 * (-n) + d) \div (2 * d))

NoFilterTap == [x |-> 0, cutoff |-> 0, peak |-> 0, out |-> 0, maxIn |-> 0]

\* -------------------------------------------------------- the Korg filter
KorgScale == 1000         \* a stage value is counted in thousandths
KorgInputs == {-1000000, 0, 1000}     \* -1000, 0, 1

\* _clip without the limits.
Clip_Scale(x) == RoundDiv(7 * x, 10)

\* _clip(x): Math.max(-1, Math.min(1, x * 0.7))
Clip(x) == Max(-KorgScale, Min(KorgScale, RoundDiv(7 * x, 10)))

\* Math.min(cutoff, SR * 0.49)
KorgCutoff(cutoff) == Min(cutoff, (SampleRate * 49) \div 100)

\* Math.tan(Math.PI * c / SR), in thousandths, at SR = 1000 and the values
\* of c that CutoffInputs and AnyCutoff yield
Tan(c) ==
  CASE c = -100 -> -325 [] c = 20 -> 63 [] c = 250 -> 1000 [] c = 490 -> 31821

\* G = g / (1 + g), in thousandths
KorgG(cutoff) ==
  LET g == Tan(KorgCutoff(cutoff)) IN RoundDiv(g * KorgScale, KorgScale + g)

\* s + G * (c - s)
KorgStage(s, G, c) == s + RoundDiv(G * (c - s), KorgScale)

\* -------------------------------------------------------- the Moog ladder
MoogScale == 100          \* a stage value is counted in hundredths
FcScale == 1000           \* fc is counted in thousandths
MoogInputs == {-100000, 0, 100}       \* -1000, 0, 1

\* The ladder without saturation.
Tanh_Linear(x) == x

\* _tanh(x), the fast approximation
Tanh(x) ==
  IF x > 3 * MoogScale THEN MoogScale
  ELSE IF x < -3 * MoogScale THEN -MoogScale
  ELSE LET x2 == x * x
       IN RoundDiv(x * (27 * MoogScale * MoogScale + x2),
                   27 * MoogScale * MoogScale + 9 * x2)

\* fc = Math.min((2 * cutoff) / SR, 0.999)
MoogFc(cutoff) == Min((2 * cutoff * FcScale) \div SampleRate, FcScale - 1)

\* fb = resonance * (1.0 - 0.15 * fc * fc)
MoogFb(resonance, fc) ==
  resonance * (MoogScale - RoundDiv(15 * fc * fc, FcScale * FcScale))

\* y + fc * (_tanh(in * 0.5) - _tanh(y * 0.5))
MoogStage(y, fc, in) ==
  y + RoundDiv(fc * (Tanh(RoundDiv(in, 2)) - Tanh(RoundDiv(y, 2))), FcScale)

\* ------------------------------------------------- the voices' envelopes
\* A control is counted in tenths of its travel from 0 to 1, a ramp target in
\* ten-thousandths (of a gain, or of a hertz).
KnobSteps == 10
RampScale == 10000
KnobInputs == 0..KnobSteps
SynthCutoffs == {20, 800, 18000}      \* Hz, the travel of the CUTOFF knobs
TomVariants == {"LT", "MT", "HT", "LC", "MC", "HC"}

Floor == 1                \* 0.0001, the target of the gain ramps

\* a + k * b for a control at k tenths, a and b in units of the source
Lin(a, b, k) == ((a * KnobSteps + b * k) * RampScale) \div KnobSteps

\* schedulePercEnv: the decay
PercEnvRamps == <<Floor>>

\* BassDrum808.trigger: pitchEnd, oscGain, pitchEnd * 0.5, osc2Gain, clickGain
BassDrum808Ramps(tune) ==
  LET pitchEnd == Lin(28, 40, tune)
  IN <<pitchEnd, Floor, pitchEnd \div 2, Floor, Floor>>

\* Tom808: this._baseFreq
Tom808Base(variant) ==
  CASE variant = "LT" -> 80 [] variant = "MT" -> 120 [] variant = "HT" -> 165
    [] variant = "LC" -> 85 [] variant = "MC" -> 130 [] variant = "HC" -> 175

\* Tom808.trigger: freqEnd, gain
Tom808Ramps(variant, tune) ==
  LET freq == (Tom808Base(variant) * (7 + tune) * RampScale) \div KnobSteps
      freqEnd == freq \div 2
  IN <<freqEnd, Floor>>

\* Cowbell808.trigger: this.level * 0.3, then the decay
Cowbell808Ramps(level) ==
  <<(3 * level * RampScale) \div (10 * KnobSteps), Floor>>

\* SnareDrum808.trigger: freq1 * 0.6, freq2 * 0.5, toneGain, snappyGain
SnareDrum808Ramps(tone) ==
  LET freq1 == Lin(100, 100, tone)
      freq2 == (freq1 * 3) \div 2
  IN <<(freq1 * 6) \div 10, freq2 \div 2, Floor, Floor>>

\* SnareDrum909.trigger: freq * 0.5, freq * 0.7, toneGain, noiseGain
SnareDrum909Ramps(tune) ==
  LET freq == Lin(150, 120, tune)
  IN <<freq \div 2, (freq * 7) \div 10, Floor, Floor>>

\* BassDrum909.trigger: pitchEnd, bodyGain, clickGain
BassDrum909Ramps(tune) == <<Lin(35, 40, tune), Floor, Floor>>

\* Tom909.trigger: freqEnd, freqEnd * 1.1, gain (the variant LT)
Tom909Ramps(tune) ==
  LET freq == (85 * (7 + tune) * RampScale) \div KnobSteps
      freqEnd == (freq * 45) \div 100
  IN <<freqEnd, (freqEnd * 11) \div 10, Floor>>

\* noteOn of a synth: Math.max(baseCutoff, 20), the cutoff knob at cutoff Hz
\* and the key tracking at keyTrack tenths of a note of 440 Hz
SynthCutoffRamps(cutoff, keyTrack) ==
  LET baseCutoff == cutoff * RampScale + (440 * keyTrack * RampScale) \div KnobSteps
  IN <<Max(baseCutoff, 20 * RampScale)>>

NoRamps == [voice |-> "none", a |-> 0, b |-> 0, targets |-> <<>>]

\* A voice is triggered with its controls where the user left them.
Trigger(voice, a, b, targets) ==
  /\ ramps' = [voice |-> voice, a |-> a, b |-> b, targets |-> targets]
  /\ UNCHANGED <<sequencer, dsp, synths, hihat, tr808, pad>>

\* ------------------------------------------------------------ the synths
\* Minimoog, MS20 and MS10 keep their notes in a Map and share the code of
\* noteOn and noteOff: "Minimoog" stands for the three.  A voice record is
\* known by its note.
NUM_VOICES == 6
Synths == {"Minimoog", "Juno106"}
Notes == 1..7             \* MIDI notes
KeyNotes == {1, 2}        \* the notes of the specification of both synths
MaxPending == 2           \* calls of noteOn that await _initAudio at once
MaxPendingJuno == 2       \* the same, for the specification of the Juno-106
MaxNoteOns == 7           \* calls of noteOn in the specification of the Juno-106

\* Map: has, delete, set
MapHas(m, k) == \E i \in 1..Len(m) : m[i] = k
MapDelete(m, k) == SelectSeq(m, LAMBDA e : e # k)
MapSet(m, k) == IF MapHas(m, k) THEN m ELSE Append(m, k)

\* findIndex(v => v.note === n), 0 for -1
FindIndex(vs, n) ==
  IF \E i \in 1..Len(vs) : vs[i] = n
    THEN CHOOSE i \in 1..Len(vs) : vs[i] = n /\ \A j \in 1..(i - 1) : vs[j] # n
    ELSE 0

\* splice(idx, 1)
Splice(vs, idx) == SubSeq(vs, 1, idx - 1) \o SubSeq(vs, idx + 1, Len(vs))

Pending(synth) ==
  LET RECURSIVE Sum(_)
      Sum(n) == IF n = 0 THEN 0 ELSE CopiesIn(<<synth, n>>, pendingOn) + Sum(n - 1)
  IN Sum(7)

\* The sounding voices after one more of note n, or one fewer.
More(snd, synth, n) == snd (+) SetToBag({<<synth, n>>})
Fewer(snd, synth, n) == snd (-) SetToBag({<<synth, n>>})

\* Minimoog.noteOff(n) on the Map m: the Map and the notes released
MapNoteOff(m, n) ==
  IF MapHas(m, n) THEN [notes |-> MapDelete(m, n), released |-> <<n>>]
  ELSE [notes |-> m, released |-> <<>>]

\* Juno106.noteOff(n) on the arrays vs and vo: the arrays and the notes
\* released
JunoNoteOff(vs, vo, n) ==
  LET idx == FindIndex(vs, n)
  IN IF idx = 0
       THEN [voices |-> vs, voiceOrder |-> vo, released |-> <<>>]
       ELSE [voices |-> Splice(vs, idx),
             voiceOrder |-> SelectSeq(vo, LAMBDA v : v # vs[idx]),
             released |-> <<vs[idx]>>]

\* After the releases of rel, in order.
RECURSIVE Silenced(_, _, _)
Silenced(snd, synth, rel) ==
  IF rel = <<>> THEN snd
  ELSE Silenced(Fewer(snd, synth, Head(rel)), synth, Tail(rel))

\* noteOn(n) is called: it runs up to its await of _initAudio.
NoteOn(synth, n, max) ==
  /\ Pending(synth) < max
  /\ pendingOn' = pendingOn (+) SetToBag({<<synth, n>>})
  /\ released' = <<>>
  /\ UNCHANGED <<workletReady, activeNotes, voices, voiceOrder, sounding>>

\* noteOn that does not release the note it plays.
MinimoogResume_NoRelease(n) ==
  /\ CopiesIn(<<"Minimoog", n>>, pendingOn) > 0
  /\ pendingOn' = pendingOn (-) SetToBag({<<"Minimoog", n>>})
  /\ workletReady' = [workletReady EXCEPT !["Minimoog"] = TRUE]
  /\ activeNotes' = MapSet(activeNotes, n)
  /\ released' = <<>>
  /\ sounding' = More(sounding, "Minimoog", n)
  /\ UNCHANGED <<voices, voiceOrder>>

\* Minimoog.noteOn(n) goes on after its await, to its end.
MinimoogResume(n) ==
  /\ CopiesIn(<<"Minimoog", n>>, pendingOn) > 0
  /\ pendingOn' = pendingOn (-) SetToBag({<<"Minimoog", n>>})
  /\ workletReady' = [workletReady EXCEPT !["Minimoog"] = TRUE]
  /\ LET off == MapNoteOff(activeNotes, n)
     IN /\ activeNotes' = MapSet(off.notes, n)
        /\ released' = off.released
        /\ sounding' = More(Silenced(sounding, "Minimoog", off.released), "Minimoog", n)
  /\ UNCHANGED <<voices, voiceOrder>>

\* noteOn that steals the voice started last.
JunoResume_StealNewest(n) ==
  /\ CopiesIn(<<"Juno106", n>>, pendingOn) > 0
  /\ pendingOn' = pendingOn (-) SetToBag({<<"Juno106", n>>})
  /\ workletReady' = [workletReady EXCEPT !["Juno106"] = TRUE]
  /\ LET off == JunoNoteOff(voices, voiceOrder, n)
         steal == IF Len(off.voices) >= NUM_VOICES
                    THEN JunoNoteOff(off.voices, off.voiceOrder,
                                     off.voiceOrder[Len(off.voiceOrder)])
                    ELSE [voices |-> off.voices, voiceOrder |-> off.voiceOrder,
                          released |-> <<>>]
         rel == off.released \o steal.released
     IN /\ voices' = Append(steal.voices, n)
        /\ voiceOrder' = Append(steal.voiceOrder, n)
        /\ released' = rel
        /\ sounding' = More(Silenced(sounding, "Juno106", rel), "Juno106", n)
  /\ UNCHANGED activeNotes

\* Juno106.noteOn(n) goes on after its await, to its end.
JunoResume(n) ==
  /\ CopiesIn(<<"Juno106", n>>, pendingOn) > 0
  /\ pendingOn' = pendingOn (-) SetToBag({<<"Juno106", n>>})
  /\ workletReady' = [workletReady EXCEPT !["Juno106"] = TRUE]
  /\ LET off == JunoNoteOff(voices, voiceOrder, n)
         steal == IF Len(off.voices) >= NUM_VOICES
                    THEN JunoNoteOff(off.voices, off.voiceOrder, off.voiceOrder[1])
                    ELSE [voices |-> off.voices, voiceOrder |-> off.voiceOrder,
                          released |-> <<>>]
         rel == off.released \o steal.released
     IN /\ voices' = Append(steal.voices, n)
        /\ voiceOrder' = Append(steal.voiceOrder, n)
        /\ released' = rel
        /\ sounding' = More(Silenced(sounding, "Juno106", rel), "Juno106", n)
  /\ UNCHANGED activeNotes

\* Minimoog.noteOff(n)
MinimoogNoteOff(n) ==
  /\ LET off == MapNoteOff(activeNotes, n)
     IN /\ activeNotes' = off.notes
        /\ released' = off.released
        /\ sounding' = Silenced(sounding, "Minimoog", off.released)
  /\ UNCHANGED <<workletReady, voices, voiceOrder, pendingOn>>

\* Juno106.noteOff(n)
JunoNoteOff_Call(n) ==
  /\ LET off == JunoNoteOff(voices, voiceOrder, n)
     IN /\ voices' = off.voices
        /\ voiceOrder' = off.voiceOrder
        /\ released' = off.released
        /\ sounding' = Silenced(sounding, "Juno106", off.released)
  /\ UNCHANGED <<workletReady, activeNotes, pendingOn>>

\* The synths as constructed.
SynthsBuilt ==
  /\ workletReady = [s \in Synths |-> FALSE]
  /\ activeNotes = <<>>
  /\ voices = <<>>
  /\ voiceOrder = <<>>
  /\ pendingOn = EmptyBag
  /\ released = <<>>
  /\ sounding = EmptyBag
  /\ offLast = {}
  /\ noteOns = 0

\* ---------------------------------------------------------- the hi-hats
\* Times are in milliseconds.  An envelope is the automation of one gain
\* node: it starts at start, decays until stop, and is set to 0 from cutAt
\* on (-1: never).  HiHat909 differs in the constants of its decay only.
HatStep == 125            \* a sixteenth at 120 bpm
MaxHatTime == 500         \* the last step that triggers a hat
MaxHats == 3              \* open hats triggered in all
DecayInputs == {0, 5, 10} \* decayOH, in tenths

\* decayTime of triggerOH: 0.15 + this.decayOH * 0.65
DecayOH(decay) == 150 + 65 * decay

\* cancelScheduledValues(time) and setValueAtTime(0, time) on the gain of e
Cancel(e, time) == [e EXCEPT !.cutAt = time]

\* An open hat was triggered at this step already.
OpenAtStep == \E i \in 1..Len(ohEnvs) : ohEnvs[i].start = hatClock

\* triggerCH(time), called by the step listener: once at a step, and before
\* the open hat of the step
TriggerCH ==
  /\ chAt < hatClock
  /\ ~OpenAtStep
  /\ ohEnvs' = IF ohGain # 0
                 THEN [ohEnvs EXCEPT ![ohGain] = Cancel(@, hatClock)]
                 ELSE ohEnvs
  /\ chAt' = hatClock
  /\ chSeen' = Len(ohEnvs)
  /\ UNCHANGED <<ohGain, ohStopTime, hatClock>>
  /\ UNCHANGED <<sequencer, dsp, ramps, synths, tr808, pad>>

\* triggerOH(time), called by the step listener: once at a step
TriggerOH(decay, max) ==
  /\ Len(ohEnvs) < max
  /\ ~OpenAtStep
  /\ ohEnvs' = Append(ohEnvs, [start |-> hatClock, stop |-> hatClock + DecayOH(decay),
                                cutAt |-> -1])
  /\ ohGain' = Len(ohEnvs) + 1
  /\ ohStopTime' = hatClock + DecayOH(decay)
  /\ UNCHANGED <<hatClock, chAt, chSeen>>
  /\ UNCHANGED <<sequencer, dsp, ramps, synths, tr808, pad>>

\* The sequencer goes on to the next step.
HatAdvance(max) ==
  /\ hatClock + HatStep <= max
  /\ hatClock' = hatClock + HatStep
  /\ UNCHANGED <<ohGain, ohStopTime, ohEnvs, chAt, chSeen>>
  /\ UNCHANGED <<sequencer, dsp, ramps, synths, tr808, pad>>

\* HiHat808 as constructed.
HiHatBuilt ==
  /\ ohGain = 0
  /\ ohStopTime = 0
  /\ ohEnvs = <<>>
  /\ hatClock = 0
  /\ chAt = -1
  /\ chSeen = 0

\* ------------------------------------------------------------ the TR808
\* The drum machine after buildUI: every instrument has its 16 pads.  The
\* TR909 has the same listener, written out per instrument, and no cowbell.
InstrumentKeys ==
  <<"BD", "SD", "CH", "OH", "HT", "MT", "LT", "HC", "MC", "LC", "CY", "CB", "RS", "CP">>
PadKeys == {"BD", "CB", "CP"}         \* the rows whose pads are clicked
PadSteps == {0, 15}                   \* the columns whose pads are clicked
EventSteps == {-1, 0, 1, 15}          \* step of a step event
EventTimes == {0, 125}                \* time of a step event
LevelInputs == {0, 7}                 \* the LEVEL knob of the cowbell, in tenths
MaxEvents == 3            \* step events in all

NoneHeard == [step |-> -1, time |-> 0, keys |-> <<>>, threw |-> FALSE]

\* A pad is clicked: onChange sets the pattern entry.
PadClick(key, step) ==
  /\ pattern' = IF <<key, step>> \in pattern
                  THEN pattern \ {<<key, step>>}
                  ELSE pattern \cup {<<key, step>>}
  /\ UNCHANGED <<lastStep, playing, cbLevel, heard, events>>
  /\ UNCHANGED <<sequencer, dsp, ramps, synths, hihat, pad>>

\* The LEVEL knob of the cowbell is turned.
SetLevel(level) ==
  /\ cbLevel' = level
  /\ UNCHANGED <<pattern, lastStep, playing, heard, events>>
  /\ UNCHANGED <<sequencer, dsp, ramps, synths, hihat, pad>>

\* _highlightStep(step): the pads shown as playing afterwards
HighlightStep(step) ==
  LET cleared == IF lastStep >= 0 THEN playing \ {lastStep} ELSE playing
  IN IF step >= 0 THEN cleared \cup {step} ELSE cleared

\* trigger(time) of the voice of key throws: exponentialRampToValueAtTime
\* raises a RangeError for the target 0, which is the first target of the
\* cowbell at level 0.
Throws(key) == key = "CB" /\ Cowbell808Ramps(cbLevel)[1] = 0

\* The listener of the TR808 is called with a step event.
StepEvent(step, time, max) ==
  /\ events < max
  /\ events' = events + 1
  /\ IF step = -1
       THEN /\ playing' = HighlightStep(-1)
            /\ lastStep' = -1
            /\ heard' = [step |-> step, time |-> time, keys |-> <<>>, threw |-> FALSE]
       ELSE LET on == SelectSeq(InstrumentKeys, LAMBDA k : <<k, step>> \in pattern)
                bad == {i \in 1..Len(on) : Throws(on[i])}
            IN IF bad = {}
                 THEN /\ playing' = HighlightStep(step)
                      /\ lastStep' = step
                      /\ heard' = [step |-> step, time |-> time, keys |-> on,
                                    threw |-> FALSE]
                 ELSE LET i == CHOOSE j \in bad : \A k \in bad : j <= k
                      IN /\ heard' = [step |-> step, time |-> time,
                                       keys |-> SubSeq(on, 1, i - 1), threw |-> TRUE]
                         /\ UNCHANGED <<playing, lastStep>>
  /\ UNCHANGED <<pattern, cbLevel>>
  /\ UNCHANGED <<sequencer, dsp, ramps, synths, hihat, pad>>

\* The TR808 as constructed, its panel built.
TR808Built ==
  /\ pattern = {}
  /\ lastStep = -1
  /\ playing = {}
  /\ cbLevel = 7
  /\ heard = NoneHeard
  /\ events = 0

\* ------------------------------------------------------------ PadButton
MaxChanges == 5           \* calls of onChange in all

NoReport == [active |-> FALSE, accent |-> FALSE, none |-> TRUE]

\* onChange({ step, instrument, active: this._enabled, accent: this._accent })
OnChange(en, acc) ==
  /\ reported' = [active |-> en, accent |-> acc, none |-> FALSE]
  /\ changes' = changes + 1

\* The listener of 'click'.
Click(max) ==
  /\ changes < max
  /\ enabled' = ~enabled
  /\ accent' = IF ~enabled' THEN FALSE ELSE accent
  /\ OnChange(enabled', accent')
  /\ lastOp' = "click"
  /\ UNCHANGED active
  /\ UNCHANGED <<sequencer, dsp, ramps, synths, hihat, tr808>>

\* The listener of 'contextmenu'.
ContextMenu(max) ==
  /\ changes < max
  /\ IF enabled
       THEN /\ accent' = ~accent
            /\ OnChange(enabled, accent')
       ELSE UNCHANGED <<accent, reported, changes>>
  /\ lastOp' = "contextmenu"
  /\ UNCHANGED <<enabled, active>>
  /\ UNCHANGED <<sequencer, dsp, ramps, synths, hihat, tr808>>

\* setEnabled(v, accent = false)
SetEnabled(v, acc) ==
  /\ enabled' = v
  /\ accent' = acc
  /\ lastOp' = "setEnabled"
  /\ UNCHANGED <<active, reported, changes>>
  /\ UNCHANGED <<sequencer, dsp, ramps, synths, hihat, tr808>>

\* setActive(v)
SetActive(v) ==
  /\ active' = v
  /\ lastOp' = "setActive"
  /\ UNCHANGED <<enabled, accent, reported, changes>>
  /\ UNCHANGED <<sequencer, dsp, ramps, synths, hihat, tr808>>

\* new PadButton({ container, step, instrument, onChange })
PadBuilt ==
  /\ enabled = FALSE
  /\ accent = FALSE
  /\ active = FALSE
  /\ reported = NoReport
  /\ changes = 0
  /\ lastOp = "new"

\* The constructors of the processors.
Constructed ==
  /\ s1 = 0 /\ s2 = 0 /\ s3 = 0 /\ s4 = 0
  /\ y1 = 0 /\ y2 = 0 /\ y3 = 0 /\ y4 = 0
  /\ ftap = NoFilterTap
  /\ bufSize = BufSizeOf(SampleRate)
  /\ buf1 = [i \in 1..BufSizeOf(SampleRate) |-> 0]
  /\ buf2 = [i \in 1..BufSizeOf(SampleRate) |-> 0]
  /\ writePos = 0
  /\ lfoPhase1 = 0
  /\ lfoPhase2 = PhaseSteps \div 2
  /\ call = Idle
  /\ done = NoneDone
  /\ tap = NoTap
  /\ probe = NoRead
  /\ fed = 0

\* ------------------------------------------------------------------ Init
Init ==
  /\ Constructed
  /\ ramps = NoRamps
  /\ SynthsBuilt
  /\ HiHatBuilt
  /\ TR808Built
  /\ PadBuilt
  /\ bpm = DefaultBpm
  /\ steps = DefaultSteps
  /\ swing = 0
  /\ currentStep = 0
  /\ nextStepTime = 0
  /\ running = FALSE
  /\ timerID = NoTimer
  /\ listeners = <<>>
  /\ timers = {}
  /\ clock = 0
  /\ pc = "idle"
  /\ stack = <<>>
  /\ last = NoEvent
  /\ maxEmitted = -1
  /\ emittedInRun = FALSE
  /\ delivered = NoCall
  /\ starts = 0
  /\ startNoop = FALSE
  /\ emittedInTick = 0

\* ------------------------------------------------- top-level operations
OnStep(fn, max) ==
  /\ pc = "idle"
  /\ Len(listeners) < max
  /\ listeners' = Append(listeners, fn)
  /\ UNCHANGED <<bpm, steps, swing, currentStep, nextStepTime, running, timerID>>
  /\ UNCHANGED <<host, pc, stack, hist>>

\* offStep that removes one registration of fn (indexOf and splice).
OffStep_First(fn) ==
  /\ pc = "idle"
  /\ listeners' =
       IF \E i \in 1..Len(listeners) : listeners[i] = fn
         THEN LET i == CHOOSE j \in 1..Len(listeners) :
                         listeners[j] = fn /\ \A k \in 1..(j - 1) : listeners[k] # fn
              IN SubSeq(listeners, 1, i - 1) \o SubSeq(listeners, i + 1, Len(listeners))
         ELSE listeners
  /\ UNCHANGED <<bpm, steps, swing, currentStep, nextStepTime, running, timerID>>
  /\ UNCHANGED <<host, pc, stack, hist>>

OffStep(fn) ==
  /\ pc = "idle"
  /\ listeners' = SelectSeq(listeners, LAMBDA l : l # fn)
  /\ UNCHANGED <<bpm, steps, swing, currentStep, nextStepTime, running, timerID>>
  /\ UNCHANGED <<host, pc, stack, hist>>

\* set bpm(v), from the top level or from a listener
SetBpmBody(v) ==
  /\ bpm' = Max(MinBpm, Min(MaxBpm, v))
  /\ UNCHANGED <<steps, swing, currentStep, nextStepTime, running, timerID, listeners>>

\* set swing(v), from the top level or from a listener
SetSwingBody(v) ==
  /\ swing' = clamp(v, MinSwing, MaxSwing)
  /\ UNCHANGED <<bpm, steps, currentStep, nextStepTime, running, timerID, listeners>>

\* A setter that moves the step already scheduled to the new spacing.
SetBpm_Rescale(v) ==
  /\ pc = "idle"
  /\ bpm' = Max(MinBpm, Min(MaxBpm, v))
  /\ nextStepTime' = nextStepTime - StepDuration + StepDurationOf(bpm')
  /\ UNCHANGED <<steps, swing, currentStep, running, timerID, listeners>>
  /\ UNCHANGED <<host, pc, stack, hist>>

SetBpm(v) ==
  /\ pc = "idle"
  /\ SetBpmBody(v)
  /\ UNCHANGED <<host, pc, stack, hist>>

SetSteps(v) ==
  /\ pc = "idle"
  /\ steps' = v
  /\ UNCHANGED <<bpm, swing, currentStep, nextStepTime, running, timerID, listeners>>
  /\ UNCHANGED <<host, pc, stack, hist>>

SetSwing(v) ==
  /\ pc = "idle"
  /\ SetSwingBody(v)
  /\ UNCHANGED <<host, pc, stack, hist>>

\* start() without the test of _running.
Start_Restart(max) ==
  /\ pc = "idle"
  /\ starts < max
  /\ starts' = starts + 1
  /\ startNoop' = FALSE
  /\ running' = TRUE
  /\ currentStep' = 0
  /\ nextStepTime' = clock + LeadIn
  /\ timerID' = FreshTimer
  /\ timers' = timers \cup {FreshTimer}
  /\ emittedInRun' = FALSE
  /\ UNCHANGED <<bpm, steps, swing, listeners>>
  /\ UNCHANGED <<clock, pc, stack, emits, delivered>>

\* start() that leaves the step index to stop().
Start_NoReset(max) ==
  /\ pc = "idle"
  /\ IF running
       THEN /\ startNoop' = TRUE
            /\ UNCHANGED <<prog, timers, emittedInRun, starts>>
       ELSE /\ starts < max
            /\ starts' = starts + 1
            /\ startNoop' = FALSE
            /\ running' = TRUE
            /\ nextStepTime' = clock + LeadIn
            /\ timerID' = FreshTimer
            /\ timers' = timers \cup {FreshTimer}
            /\ emittedInRun' = FALSE
            /\ UNCHANGED <<bpm, steps, swing, listeners, currentStep>>
  /\ UNCHANGED <<clock, pc, stack, emits, delivered>>

Start(max) ==
  /\ pc = "idle"
  /\ IF running
       THEN /\ startNoop' = TRUE
            /\ UNCHANGED <<prog, timers, emittedInRun, starts>>
       ELSE /\ starts < max
            /\ starts' = starts + 1
            /\ startNoop' = FALSE
            /\ running' = TRUE
            /\ currentStep' = 0
            /\ nextStepTime' = clock + LeadIn
            /\ timerID' = FreshTimer
            /\ timers' = timers \cup {FreshTimer}
            /\ emittedInRun' = FALSE
            /\ UNCHANGED <<bpm, steps, swing, listeners>>
  /\ UNCHANGED <<clock, pc, stack, emits, delivered>>

\* stop() that leaves the step index where it was.
StopBody_NoReset(stk) ==
  /\ running' = FALSE
  /\ timers' = timers \ {timerID}
  /\ timerID' = NoTimer
  /\ stack' = Append(stk, Frame(Sentinel, 0))
  /\ startNoop' = FALSE
  /\ UNCHANGED <<bpm, steps, swing, nextStepTime, listeners, clock, currentStep>>
  /\ UNCHANGED <<emits, emittedInRun, starts>>

\* stop() without clearInterval.
StopBody_NoClear(stk) ==
  /\ running' = FALSE
  /\ timerID' = NoTimer
  /\ currentStep' = 0
  /\ stack' = Append(stk, Frame(Sentinel, 0))
  /\ startNoop' = FALSE
  /\ UNCHANGED <<bpm, steps, swing, nextStepTime, listeners, clock, timers>>
  /\ UNCHANGED <<emits, emittedInRun, starts>>

\* The body of stop(), from the top level or from a listener: the
\* assignments, and the forEach it begins on top of the calls in progress.
StopBody(stk) ==
  /\ running' = FALSE
  /\ timers' = timers \ {timerID}
  /\ timerID' = NoTimer
  /\ currentStep' = 0
  /\ stack' = Append(stk, Frame(Sentinel, 0))
  /\ startNoop' = FALSE
  /\ UNCHANGED <<bpm, steps, swing, nextStepTime, listeners, clock>>
  /\ UNCHANGED <<emits, emittedInRun, starts>>

Stop ==
  /\ pc = "idle"
  /\ StopBody(stack)
  /\ pc' = "stop"
  /\ UNCHANGED delivered

\* ------------------------------------------------------------ the host
\* The audio clock advances between handlers.
AdvanceClock(d, max) ==
  /\ pc = "idle"
  /\ clock + d <= max
  /\ clock' = clock + d
  /\ startNoop' = FALSE
  /\ UNCHANGED <<prog, timers, pc, stack, emits, emittedInRun, delivered, starts>>

\* A live interval timer fires and calls _schedule().
Tick ==
  /\ pc = "idle"
  /\ timers # {}
  /\ pc' = "schedule"
  /\ startNoop' = FALSE
  /\ UNCHANGED <<prog, host, stack, emits>>
  /\ UNCHANGED <<emittedInRun, delivered, starts>>

\* ------------------------------------------------------------ _schedule
\* The loop test, and the part of the body before the listeners are called.
ScheduleLoop ==
  /\ pc = "schedule"
  /\ stack = <<>>
  /\ IF nextStepTime < clock + ScheduleAheadTime
       THEN LET step == currentStep
                t == nextStepTime + SwingOffset(step)
            IN /\ stack' = <<Frame(step, t)>>
               /\ last' = [step |-> step, time |-> t, off |-> t - nextStepTime,
                           steps |-> steps, first |-> ~emittedInRun,
                           live |-> running, prevStep |-> last.step,
                           prevSteps |-> last.steps, gap |-> t - last.time]
               /\ maxEmitted' = Max(maxEmitted, t)
               /\ emittedInRun' = TRUE
               /\ emittedInTick' = emittedInTick + 1
               /\ UNCHANGED pc
       ELSE /\ pc' = "idle"
            /\ emittedInTick' = 0
            /\ UNCHANGED <<stack, last, maxEmitted, emittedInRun>>
  /\ UNCHANGED <<prog, host, delivered, starts, startNoop>>

\* The schedule advanced from the swung time of the event.
ScheduleAdvance_Accumulate ==
  /\ pc = "schedule"
  /\ Len(stack) = 1
  /\ Top.rest = <<>>
  /\ nextStepTime' = Top.time + StepDuration
  /\ currentStep' = (currentStep + 1) % steps
  /\ stack' = <<>>
  /\ UNCHANGED <<bpm, steps, swing, running, timerID, listeners>>
  /\ UNCHANGED <<host, pc, hist>>

\* An `if` in place of the `while`: _schedule returns after one step.
ScheduleAdvance_Once ==
  /\ pc = "schedule"
  /\ Len(stack) = 1
  /\ Top.rest = <<>>
  /\ nextStepTime' = nextStepTime + StepDuration
  /\ currentStep' = (currentStep + 1) % steps
  /\ stack' = <<>>
  /\ pc' = "idle"
  /\ emittedInTick' = 0
  /\ UNCHANGED <<bpm, steps, swing, running, timerID, listeners>>
  /\ UNCHANGED <<host, last, maxEmitted, emittedInRun, delivered, starts, startNoop>>

\* The part of the loop body after the listeners were called.
ScheduleAdvance ==
  /\ pc = "schedule"
  /\ Len(stack) = 1
  /\ Top.rest = <<>>
  /\ nextStepTime' = nextStepTime + StepDuration
  /\ currentStep' = (currentStep + 1) % steps
  /\ stack' = <<>>
  /\ UNCHANGED <<bpm, steps, swing, running, timerID, listeners>>
  /\ UNCHANGED <<host, pc, hist>>

\* ------------------------------------------------------------ listeners
\* forEach calls the next listener of the innermost dispatch.
Called(fn) == delivered' = [fn |-> fn, step |-> Top.step, running |-> running]

Served ==
  [stack EXCEPT ![Len(stack)].rest = Tail(@),
                ![Len(stack)].served = Append(@, Head(Top.rest))]

\* A listener that only takes note of the event (the drum machines' listener).
Deliver ==
  /\ stack # <<>>
  /\ Top.rest # <<>>
  /\ Called(Head(Top.rest))
  /\ stack' = Served
  /\ UNCHANGED <<prog, host, pc, emits, emittedInRun, starts, startNoop>>

\* A listener that sets the tempo while it handles a step event.
DeliverSetBpm(v) ==
  /\ stack # <<>>
  /\ Top.rest # <<>>
  /\ Top.step # Sentinel
  /\ Called(Head(Top.rest))
  /\ stack' = Served
  /\ SetBpmBody(v)
  /\ UNCHANGED <<host, pc, emits, emittedInRun, starts, startNoop>>

\* A listener that sets the swing while it handles a step event.
DeliverSetSwing(v) ==
  /\ stack # <<>>
  /\ Top.rest # <<>>
  /\ Top.step # Sentinel
  /\ Called(Head(Top.rest))
  /\ stack' = Served
  /\ SetSwingBody(v)
  /\ UNCHANGED <<host, pc, emits, emittedInRun, starts, startNoop>>

\* A listener that calls stop() while it handles a step event: the forEach
\* of stop() runs inside this call.
DeliverStop ==
  /\ stack # <<>>
  /\ Top.rest # <<>>
  /\ Top.step # Sentinel
  /\ Called(Head(Top.rest))
  /\ StopBody(Served)
  /\ UNCHANGED pc

\* A listener that registers a listener while it handles a step event: push
\* extends the array, and a forEach in progress ends at the length it began
\* with.
DeliverOnStep(fn, max) ==
  /\ stack # <<>>
  /\ Top.rest # <<>>
  /\ Top.step # Sentinel
  /\ Len(listeners) < max
  /\ Called(Head(Top.rest))
  /\ stack' = Served
  /\ listeners' = Append(listeners, fn)
  /\ UNCHANGED <<bpm, steps, swing, currentStep, nextStepTime, running, timerID>>
  /\ UNCHANGED <<host, pc, emits, emittedInRun, starts, startNoop>>

\* A listener that removes a listener while it handles a step event: filter
\* makes a new array, and a forEach in progress goes on over the old one.
DeliverOffStep(fn) ==
  /\ stack # <<>>
  /\ Top.rest # <<>>
  /\ Top.step # Sentinel
  /\ Called(Head(Top.rest))
  /\ stack' = Served
  /\ listeners' = SelectSeq(listeners, LAMBDA l : l # fn)
  /\ UNCHANGED <<bpm, steps, swing, currentStep, nextStepTime, running, timerID>>
  /\ UNCHANGED <<host, pc, emits, emittedInRun, starts, startNoop>>

\* The forEach of a stop() has called every listener: stop() returns.
StopReturn ==
  /\ stack # <<>>
  /\ Top.step = Sentinel
  /\ Top.rest = <<>>
  /\ stack' = Pop
  /\ pc' = IF pc = "stop" THEN "idle" ELSE pc
  /\ UNCHANGED <<prog, host, hist>>

\* --------------------------------------------- BBDChorusProcessor.process
\* process() is called: it returns at once when the input has no channel,
\* and reads its three parameters otherwise.
ChorusBegin(hasInput, mode, rate, depth, stereo) ==
  /\ call.proc = "none"
  /\ IF hasInput
       THEN /\ fed + BlockLen <= MaxSamples
            /\ call' = [proc |-> "chorus", i |-> 0, len |-> BlockLen,
                        mode |-> Round(mode), lfoInc |-> LfoInc(rate),
                        depth |-> depth, stereo |-> stereo, written |-> 0]
            /\ UNCHANGED done
       ELSE /\ done' = [proc |-> "chorus", requested |-> BlockLen, written |-> 0]
            /\ UNCHANGED call
  /\ UNCHANGED <<chorus, filters, tap, probe, fed, sequencer, app>>

\* A loop body that moves the write cursor in the two delay modes only.
ChorusSample_BypassHolds ==
  /\ call.proc = "chorus"
  /\ call.i < call.len
  /\ LET x == fed + 1
         b1 == [buf1 EXCEPT ![writePos + 1] = x]
         b2 == [buf2 EXCEPT ![writePos + 1] = x]
         del1 == IF call.mode = 0 THEN 0
                 ELSE IF call.mode = 1
                   THEN DelayMs(BaseDelayMs1, SwingMs1, lfoPhase1, call.depth)
                   ELSE DelayMs(BaseDelayMs2, SwingMs2, lfoPhase1, call.depth)
         del2 == IF call.mode \in {0, 1} THEN 0
                 ELSE DelayMs(BaseDelayMs2, SwingMs2, lfoPhase2, call.depth)
         r1 == IF call.mode = 0 THEN NoRead
               ELSE ReadInterp(b1, writePos, DelaySamples(del1))
         r2 == IF call.mode \in {0, 1} THEN NoRead
               ELSE ReadInterp(b2, writePos, DelaySamples(del2))
         out == ChorusOut(call.mode, call.stereo, x, r1, r2)
     IN /\ buf1' = b1
        /\ buf2' = b2
        /\ tap' = [mode |-> call.mode, stereo |-> call.stereo, x |-> x,
                   outL |-> out.L, outR |-> out.R, del1 |-> del1, del2 |-> del2,
                   r1 |-> r1, r2 |-> r2]
  /\ lfoPhase1' = IF call.mode = 0 THEN lfoPhase1
                  ELSE (lfoPhase1 + call.lfoInc) % PhaseSteps
  /\ lfoPhase2' = IF call.mode \in {0, 1} THEN lfoPhase2
                  ELSE (lfoPhase2 + call.lfoInc) % PhaseSteps
  /\ writePos' = IF call.mode = 0 THEN writePos ELSE (writePos + 1) % bufSize
  /\ call' = [call EXCEPT !.i = @ + 1, !.written = @ + 1]
  /\ fed' = fed + 1
  /\ UNCHANGED <<bufSize, filters, done, probe, sequencer, app>>

\* One turn of the loop over the samples of the input.
ChorusSample ==
  /\ call.proc = "chorus"
  /\ call.i < call.len
  /\ LET x == fed + 1
         b1 == [buf1 EXCEPT ![writePos + 1] = x]
         b2 == [buf2 EXCEPT ![writePos + 1] = x]
         del1 == IF call.mode = 0 THEN 0
                 ELSE IF call.mode = 1
                   THEN DelayMs(BaseDelayMs1, SwingMs1, lfoPhase1, call.depth)
                   ELSE DelayMs(BaseDelayMs2, SwingMs2, lfoPhase1, call.depth)
         del2 == IF call.mode \in {0, 1} THEN 0
                 ELSE DelayMs(BaseDelayMs2, SwingMs2, lfoPhase2, call.depth)
         r1 == IF call.mode = 0 THEN NoRead
               ELSE ReadInterp(b1, writePos, DelaySamples(del1))
         r2 == IF call.mode \in {0, 1} THEN NoRead
               ELSE ReadInterp(b2, writePos, DelaySamples(del2))
         out == ChorusOut(call.mode, call.stereo, x, r1, r2)
     IN /\ buf1' = b1
        /\ buf2' = b2
        /\ tap' = [mode |-> call.mode, stereo |-> call.stereo, x |-> x,
                   outL |-> out.L, outR |-> out.R, del1 |-> del1, del2 |-> del2,
                   r1 |-> r1, r2 |-> r2]
  /\ lfoPhase1' = IF call.mode = 0 THEN lfoPhase1
                  ELSE (lfoPhase1 + call.lfoInc) % PhaseSteps
  /\ lfoPhase2' = IF call.mode \in {0, 1} THEN lfoPhase2
                  ELSE (lfoPhase2 + call.lfoInc) % PhaseSteps
  /\ writePos' = (writePos + 1) % bufSize
  /\ call' = [call EXCEPT !.i = @ + 1, !.written = @ + 1]
  /\ fed' = fed + 1
  /\ UNCHANGED <<bufSize, filters, done, probe, sequencer, app>>

\* The loop has read the whole input: process() returns true.
ChorusEnd ==
  /\ call.proc = "chorus"
  /\ call.i = call.len
  /\ done' = [proc |-> "chorus", requested |-> call.len, written |-> call.written]
  /\ call' = Idle
  /\ UNCHANGED <<chorus, filters, tap, probe, fed, sequencer, app>>

\* -------------------------------------------- KorgFilterProcessor.process
\* process() is called: it returns at once when the input has no channel.
KorgBegin(hasInput) ==
  /\ call.proc = "none"
  /\ IF hasInput
       THEN /\ fed + FilterBlockLen <= MaxFilterSamples
            /\ call' = [Idle EXCEPT !.proc = "korg", !.len = FilterBlockLen]
            /\ UNCHANGED done
       ELSE /\ done' = [proc |-> "korg", requested |-> FilterBlockLen, written |-> 0]
            /\ UNCHANGED call
  /\ UNCHANGED <<chorus, filters, tap, probe, fed, sequencer, app>>

\* One turn of the loop over the samples of the output.
KorgSample(x, cutoff, peak) ==
  /\ call.proc = "korg"
  /\ call.i < call.len
  /\ LET G == KorgG(cutoff)
         fb == peak * 4
         u == Clip(x - fb * s4)
         n1 == KorgStage(s1, G, Clip(u))
         n2 == KorgStage(s2, G, Clip(n1))
         n3 == KorgStage(s3, G, Clip(n2))
         n4 == KorgStage(s4, G, Clip(n3))
     IN /\ s1' = n1
        /\ s2' = n2
        /\ s3' = n3
        /\ s4' = n4
        /\ ftap' = [x |-> x, cutoff |-> cutoff, peak |-> peak, out |-> n4,
                    maxIn |-> Max(ftap.maxIn, IF x < 0 THEN -x ELSE x)]
  /\ call' = [call EXCEPT !.i = @ + 1, !.written = @ + 1]
  /\ fed' = fed + 1
  /\ UNCHANGED <<chorus, moog, done, tap, probe, sequencer, app>>

\* The loop has filled the output: process() returns true.
KorgEnd ==
  /\ call.proc = "korg"
  /\ call.i = call.len
  /\ done' = [proc |-> "korg", requested |-> call.len, written |-> call.written]
  /\ call' = Idle
  /\ UNCHANGED <<chorus, filters, tap, probe, fed, sequencer, app>>

\* -------------------------------------------- MoogLadderProcessor.process
\* process() is called: it returns at once when the input has no channel.
MoogBegin(hasInput) ==
  /\ call.proc = "none"
  /\ IF hasInput
       THEN /\ fed + FilterBlockLen <= MaxFilterSamples
            /\ call' = [Idle EXCEPT !.proc = "moog", !.len = FilterBlockLen]
            /\ UNCHANGED done
       ELSE /\ done' = [proc |-> "moog", requested |-> FilterBlockLen, written |-> 0]
            /\ UNCHANGED call
  /\ UNCHANGED <<chorus, filters, tap, probe, fed, sequencer, app>>

\* One turn of the loop over the samples of the output.
MoogSample(in, cutoff, resonance) ==
  /\ call.proc = "moog"
  /\ call.i < call.len
  /\ LET fc == MoogFc(cutoff)
         fb == MoogFb(resonance, fc)
         x == in - RoundDiv(fb * y4, MoogScale)
         n1 == MoogStage(y1, fc, x)
         n2 == MoogStage(y2, fc, n1)
         n3 == MoogStage(y3, fc, n2)
         n4 == MoogStage(y4, fc, n3)
     IN /\ y1' = n1
        /\ y2' = n2
        /\ y3' = n3
        /\ y4' = n4
        /\ ftap' = [x |-> in, cutoff |-> cutoff, peak |-> resonance, out |-> n4,
                    maxIn |-> Max(ftap.maxIn, IF in < 0 THEN -in ELSE in)]
  /\ call' = [call EXCEPT !.i = @ + 1, !.written = @ + 1]
  /\ fed' = fed + 1
  /\ UNCHANGED <<chorus, korg, done, tap, probe, sequencer, app>>

\* The loop has filled the output: process() returns true.
MoogEnd ==
  /\ call.proc = "moog"
  /\ call.i = call.len
  /\ done' = [proc |-> "moog", requested |-> call.len, written |-> call.written]
  /\ call' = Idle
  /\ UNCHANGED <<chorus, filters, tap, probe, fed, sequencer, app>>

\* _readInterp is applied to the first delay line at the write cursor.
Probe(delaySamples) ==
  /\ call.proc = "none"
  /\ probe' = ReadInterp(buf1, writePos, delaySamples)
  /\ UNCHANGED <<chorus, filters, call, done, tap, fed, sequencer, app>>

\* ------------------------------------------------------- specifications
\* The sequencer with its tempo and swing controls, and listeners that
\* call back into it.
Next ==
  \/ (\E fn \in Fns : OnStep(fn, MaxListeners)) /\ UNCHANGED <<dsp, app>>
  \/ (\E fn \in Fns : OffStep(fn)) /\ UNCHANGED <<dsp, app>>
  \/ (\E v \in BpmInputs : SetBpm(v)) /\ UNCHANGED <<dsp, app>>
  \/ (\E v \in SwingInputs : SetSwing(v)) /\ UNCHANGED <<dsp, app>>
  \/ Start(MaxStarts) /\ UNCHANGED <<dsp, app>>
  \/ Stop /\ UNCHANGED <<dsp, app>>
  \/ (\E d \in ClockSteps : AdvanceClock(d, MaxTime)) /\ UNCHANGED <<dsp, app>>
  \/ Tick /\ UNCHANGED <<dsp, app>>
  \/ ScheduleLoop /\ UNCHANGED <<dsp, app>>
  \/ ScheduleAdvance /\ UNCHANGED <<dsp, app>>
  \/ Deliver /\ UNCHANGED <<dsp, app>>
  \/ (\E v \in BpmInputs : DeliverSetBpm(v)) /\ UNCHANGED <<dsp, app>>
  \/ (\E v \in SwingInputs : DeliverSetSwing(v)) /\ UNCHANGED <<dsp, app>>
  \/ DeliverStop /\ UNCHANGED <<dsp, app>>
  \/ StopReturn /\ UNCHANGED <<dsp, app>>

Spec == Init /\ [][Next]_vars

\* A handler that has begun runs to its end: the loop of _schedule goes on,
\* forEach calls the next listener, and every listener returns.
Fairness ==
  /\ WF_vars(ScheduleLoop /\ UNCHANGED <<dsp, app>>)
  /\ WF_vars(ScheduleAdvance /\ UNCHANGED <<dsp, app>>)
  /\ WF_vars(Deliver /\ UNCHANGED <<dsp, app>>)
  /\ WF_vars(StopReturn /\ UNCHANGED <<dsp, app>>)

\* One run of the same sequencer, under that fairness.
NextRun ==
  \/ (\E fn \in Fns : OnStep(fn, MaxListeners)) /\ UNCHANGED <<dsp, app>>
  \/ (\E fn \in Fns : OffStep(fn)) /\ UNCHANGED <<dsp, app>>
  \/ (\E v \in BpmInputs : SetBpm(v)) /\ UNCHANGED <<dsp, app>>
  \/ (\E v \in SwingInputs : SetSwing(v)) /\ UNCHANGED <<dsp, app>>
  \/ Start(MaxStartsFixed) /\ UNCHANGED <<dsp, app>>
  \/ Stop /\ UNCHANGED <<dsp, app>>
  \/ (\E d \in ClockSteps : AdvanceClock(d, MaxTime)) /\ UNCHANGED <<dsp, app>>
  \/ Tick /\ UNCHANGED <<dsp, app>>
  \/ ScheduleLoop /\ UNCHANGED <<dsp, app>>
  \/ ScheduleAdvance /\ UNCHANGED <<dsp, app>>
  \/ Deliver /\ UNCHANGED <<dsp, app>>
  \/ (\E v \in BpmInputs : DeliverSetBpm(v)) /\ UNCHANGED <<dsp, app>>
  \/ (\E v \in SwingInputs : DeliverSetSwing(v)) /\ UNCHANGED <<dsp, app>>
  \/ DeliverStop /\ UNCHANGED <<dsp, app>>
  \/ StopReturn /\ UNCHANGED <<dsp, app>>

FairRun == Init /\ [][NextRun]_vars /\ Fairness

\* The sequencer at the tempo, step count and swing of its constructor
\* (120 bpm, 16 steps, no swing), with listeners that only take note.
NextFixed ==
  \/ (\E fn \in Fns : OnStep(fn, MaxListeners)) /\ UNCHANGED <<dsp, app>>
  \/ (\E fn \in Fns : OffStep(fn)) /\ UNCHANGED <<dsp, app>>
  \/ Start(MaxStartsFixed) /\ UNCHANGED <<dsp, app>>
  \/ Stop /\ UNCHANGED <<dsp, app>>
  \/ (\E d \in ClockStepsFixed : AdvanceClock(d, MaxTimeFixed)) /\ UNCHANGED <<dsp, app>>
  \/ Tick /\ UNCHANGED <<dsp, app>>
  \/ ScheduleLoop /\ UNCHANGED <<dsp, app>>
  \/ ScheduleAdvance /\ UNCHANGED <<dsp, app>>
  \/ Deliver /\ UNCHANGED <<dsp, app>>
  \/ StopReturn /\ UNCHANGED <<dsp, app>>

SpecFixed == Init /\ [][NextFixed]_vars

\* The same, with the step count set between handlers.
NextSteps ==
  \/ NextFixed
  \/ (\E v \in StepsInputs : SetSteps(v)) /\ UNCHANGED <<dsp, app>>

SpecSteps == Init /\ [][NextSteps]_vars

\* One run at the tempo of the constructor, with up to MaxRegistered
\* listeners that register and remove listeners and call stop() while they
\* handle a step event.
NextListeners ==
  \/ (\E fn \in Fns : OnStep(fn, MaxRegistered)) /\ UNCHANGED <<dsp, app>>
  \/ (\E fn \in Fns : OffStep(fn)) /\ UNCHANGED <<dsp, app>>
  \/ Start(MaxStartsFixed) /\ UNCHANGED <<dsp, app>>
  \/ Stop /\ UNCHANGED <<dsp, app>>
  \/ (\E d \in ClockSteps : AdvanceClock(d, MaxTime)) /\ UNCHANGED <<dsp, app>>
  \/ Tick /\ UNCHANGED <<dsp, app>>
  \/ ScheduleLoop /\ UNCHANGED <<dsp, app>>
  \/ ScheduleAdvance /\ UNCHANGED <<dsp, app>>
  \/ Deliver /\ UNCHANGED <<dsp, app>>
  \/ (\E fn \in Fns : DeliverOnStep(fn, MaxRegistered)) /\ UNCHANGED <<dsp, app>>
  \/ (\E fn \in Fns : DeliverOffStep(fn)) /\ UNCHANGED <<dsp, app>>
  \/ DeliverStop /\ UNCHANGED <<dsp, app>>
  \/ StopReturn /\ UNCHANGED <<dsp, app>>

SpecListeners == Init /\ [][NextListeners]_vars

\* The chorus alone, called with and without an input, in its three modes.
NextChorus ==
  \/ \E hasInput \in BOOLEAN, mode \in ModeInputs, rate \in RateInputs,
        depth \in DepthInputs, stereo \in BOOLEAN :
          ChorusBegin(hasInput, mode, rate, depth, stereo)
  \/ ChorusSample
  \/ ChorusEnd

SpecChorus == Init /\ [][NextChorus]_vars

\* The delay line filled in bypass, and read at any delay from 0 up to the
\* capacity, in half samples.
DelayInputs ==
  {k * (FracScale \div 2) : k \in 0..(2 * BufSizeOf(SampleRate) - 1)}

NextRead ==
  \/ ChorusBegin(TRUE, 0, 5, 0, TRUE)
  \/ ChorusSample
  \/ ChorusEnd
  \/ \E d \in DelayInputs : Probe(d)

SpecRead == Init /\ [][NextRead]_vars

\* The Korg filter alone, its parameters set for every sample.
NextKorg ==
  \/ \E hasInput \in BOOLEAN : KorgBegin(hasInput)
  \/ \E x \in KorgInputs, cutoff \in CutoffInputs, peak \in PeakInputs :
       KorgSample(x, cutoff, peak)
  \/ KorgEnd

SpecKorg == Init /\ [][NextKorg]_vars

\* The Moog ladder alone, its parameters set for every sample.
NextMoog ==
  \/ \E hasInput \in BOOLEAN : MoogBegin(hasInput)
  \/ \E in \in MoogInputs, cutoff \in CutoffInputs, resonance \in PeakInputs :
       MoogSample(in, cutoff, resonance)
  \/ MoogEnd

SpecMoog == Init /\ [][NextMoog]_vars

\* The three processors, each called with and without an input, the chorus
\* in bypass.
NextProcess ==
  \/ \E hasInput \in BOOLEAN : ChorusBegin(hasInput, 0, 5, 0, TRUE)
  \/ ChorusSample
  \/ ChorusEnd
  \/ \E hasInput \in BOOLEAN : KorgBegin(hasInput)
  \/ \E x \in KorgInputs, peak \in PeakInputs : KorgSample(x, 250, peak)
  \/ KorgEnd
  \/ \E hasInput \in BOOLEAN : MoogBegin(hasInput)
  \/ \E in \in MoogInputs, resonance \in PeakInputs : MoogSample(in, 250, resonance)
  \/ MoogEnd

SpecProcess == Init /\ [][NextProcess]_vars

\* The two filters, their parameters set to any number for every sample.
NextClamp ==
  \/ KorgBegin(TRUE)
  \/ \E x \in {0, KorgScale}, cutoff \in AnyCutoff, peak \in AnyPeak :
       KorgSample(x, cutoff, peak)
  \/ KorgEnd
  \/ MoogBegin(TRUE)
  \/ \E in \in {0, MoogScale}, cutoff \in AnyCutoff, resonance \in AnyPeak :
       MoogSample(in, cutoff, resonance)
  \/ MoogEnd

SpecClamp == Init /\ [][NextClamp]_vars

\* The voices and the synths triggered at any setting of their controls.
NextRamps ==
  \/ Trigger("PercEnv", 0, 0, PercEnvRamps)
  \/ \E t \in KnobInputs : Trigger("BassDrum808", t, 0, BassDrum808Ramps(t))
  \/ \E v \in TomVariants, t \in KnobInputs : Trigger(v, t, 0, Tom808Ramps(v, t))
  \/ \E l \in KnobInputs : Trigger("Cowbell808", 0, l, Cowbell808Ramps(l))
  \/ \E t \in KnobInputs : Trigger("SnareDrum808", t, 0, SnareDrum808Ramps(t))
  \/ \E t \in KnobInputs : Trigger("SnareDrum909", t, 0, SnareDrum909Ramps(t))
  \/ \E t \in KnobInputs : Trigger("BassDrum909", t, 0, BassDrum909Ramps(t))
  \/ \E t \in KnobInputs : Trigger("Tom909", t, 0, Tom909Ramps(t))
  \/ \E c \in SynthCutoffs, k \in 0..KnobSteps :
       Trigger("Synth", c, k, SynthCutoffRamps(c, k))

SpecRamps == Init /\ [][NextRamps]_vars

\* A call of a synth: the keyboard and MIDI handlers call noteOn and noteOff.
Call(A) == A /\ UNCHANGED <<sequencer, dsp, ramps, hihat, tr808, pad>>

\* Both kinds of synth on two notes.
NextSynths ==
  \/ \E n \in KeyNotes :
       Call(/\ NoteOn("Minimoog", n, MaxPending)
            /\ offLast' = offLast \ {<<"Minimoog", n>>}
            /\ UNCHANGED noteOns)
  \/ \E n \in KeyNotes : Call(MinimoogResume(n) /\ UNCHANGED <<offLast, noteOns>>)
  \/ \E n \in KeyNotes :
       Call(/\ MinimoogNoteOff(n)
            /\ offLast' = offLast \cup {<<"Minimoog", n>>}
            /\ UNCHANGED noteOns)
  \/ \E n \in KeyNotes :
       Call(/\ NoteOn("Juno106", n, MaxPending)
            /\ offLast' = offLast \ {<<"Juno106", n>>}
            /\ UNCHANGED noteOns)
  \/ \E n \in KeyNotes : Call(JunoResume(n) /\ UNCHANGED <<offLast, noteOns>>)
  \/ \E n \in KeyNotes :
       Call(/\ JunoNoteOff_Call(n)
            /\ offLast' = offLast \cup {<<"Juno106", n>>}
            /\ UNCHANGED noteOns)

SpecSynths == Init /\ [][NextSynths]_vars

\* The notes in use, and the lowest note that is not.  The code compares
\* notes for equality only, so the lowest note that is neither held nor
\* awaited stands for every such note.
JunoKeys ==
  LET used == {n \in Notes : FindIndex(voices, n) > 0 \/ CopiesIn(<<"Juno106", n>>, pendingOn) > 0}
      free == Notes \ used
  IN used \cup {n \in free : \A m \in free : n <= m}

\* The Juno-106 on one note more than it has voices.
NextJuno ==
  \/ \E n \in JunoKeys :
       Call(/\ NoteOn("Juno106", n, MaxPendingJuno)
            /\ noteOns < MaxNoteOns
            /\ noteOns' = noteOns + 1
            /\ UNCHANGED offLast)
  \/ \E n \in Notes : Call(JunoResume(n) /\ UNCHANGED <<offLast, noteOns>>)
  \/ \E n \in JunoKeys : Call(JunoNoteOff_Call(n) /\ UNCHANGED <<offLast, noteOns>>)

SpecJuno == Init /\ [][NextJuno]_vars

\* The hi-hats triggered step by step.
NextHiHat ==
  \/ TriggerCH
  \/ \E decay \in DecayInputs : TriggerOH(decay, MaxHats)
  \/ HatAdvance(MaxHatTime)

SpecHiHat == Init /\ [][NextHiHat]_vars

\* The listener of the TR808 called with step events, between clicks on
\* the pads and turns of the cowbell's LEVEL knob.
NextTR808 ==
  \/ \E key \in PadKeys, step \in PadSteps : PadClick(key, step)
  \/ \E level \in LevelInputs : SetLevel(level)
  \/ \E step \in EventSteps, time \in EventTimes : StepEvent(step, time, MaxEvents)

SpecTR808 == Init /\ [][NextTR808]_vars

\* One pad, clicked and set in any order.
NextPad ==
  \/ Click(MaxChanges)
  \/ ContextMenu(MaxChanges)
  \/ \E v \in BOOLEAN, acc \in BOOLEAN : SetEnabled(v, acc)
  \/ \E v \in BOOLEAN : SetActive(v)

SpecPad == Init /\ [][NextPad]_vars

\* The two clamping setters alone, assigned any number.
NextSetters ==
  \/ (\E v \in AnyBpm : SetBpm(v)) /\ UNCHANGED <<dsp, app>>
  \/ (\E v \in AnySwing : SetSwing(v)) /\ UNCHANGED <<dsp, app>>

SpecSetters == Init /\ [][NextSetters]_vars

\* ---------------------------------------------------------------- claims
HasLast == last.step # NoStep

HasPrev == last.prevStep # NoStep

\* _schedule has just emitted a step event and no listener has been called
\* yet, so bpm, swing and nextStepTime are those the event was computed from.
JustEmitted ==
  /\ pc = "schedule"
  /\ Len(stack) = 1
  /\ stack[1].served = <<>>

\* C1: the times of the emitted step events are strictly increasing, and
\* between handlers nextStepTime is never smaller than the time of an event
\* already emitted.
C1_TimesIncrease ==
  /\ HasPrev => last.gap > 0
  /\ pc = "idle" => nextStepTime >= maxEmitted

\* C2: a listener is called with a step event (step >= 0) only while the
\* sequencer is running: once stop() was called, none is delivered until
\* start() is called again.
C2_NoStepAfterStop == delivered.step >= 0 => delivered.running

\* C3: within a run the first emitted index is 0, every later one is the
\* index before it plus one modulo the step count (that of either of the two
\* events, when it was changed between them), and every emitted index lies
\* in [0, step count).
C3_IndexSequence ==
  (HasLast /\ last.live) =>
    /\ last.first => last.step = 0
    /\ ~last.first => \/ last.step = (last.prevStep + 1) % last.steps
                       \/ last.step = (last.prevStep + 1) % last.prevSteps
    /\ last.step \in 0..(last.steps - 1)

\* C4: start() while running changes nothing of the sequencer and creates
\* no second timer; start() while stopped sets running, step index 0 and
\* nextStepTime = clock + 0.05 s, with one timer live.
C4_Start ==
  /\ [](Cardinality(timers) <= 1)
  /\ [][/\ (startNoop' /\ ~startNoop) =>
             /\ running
             /\ UNCHANGED <<running, currentStep, nextStepTime, timerID, timers>>
        /\ starts' # starts =>
             /\ ~running
             /\ running'
             /\ currentStep' = 0
             /\ 20 * (nextStepTime' - clock) = TicksPerSecond
             /\ timerID' # NoTimer
             /\ timers' = {timerID'}]_vars

C4_Witness ==
  /\ startNoop
  /\ running
  /\ currentStep > 0
  /\ nextStepTime > clock + LeadIn

\* A stop() is called: its forEach is begun on top of the calls in progress.
StopCalled ==
  /\ Len(stack') = Len(stack) + 1
  /\ stack'[Len(stack')].step = Sentinel

\* A stop() returns.
StopReturned ==
  /\ stack # <<>>
  /\ Top.step = Sentinel
  /\ Len(stack') = Len(stack) - 1

\* C5: stop() sets running false, cancels the timer, resets the step index
\* and calls each registered listener exactly once, in order, with step -1;
\* _schedule never emits step -1.
C5_Stop ==
  /\ [][StopCalled =>
          /\ ~running'
          /\ timerID' = NoTimer
          /\ timers' = {}
          /\ currentStep' = 0
          /\ stack'[Len(stack')].rest = listeners
          /\ stack'[Len(stack')].served = <<>>]_vars
  /\ [][StopReturned => Top.served = listeners]_vars
  /\ [](\A i \in 1..Len(stack) : stack[i].served \o stack[i].rest = stack[i].all)
  /\ []((pc = "schedule" /\ stack # <<>>) => stack[1].step >= 0)
  /\ [](HasLast => last.step >= 0)

C5_Witness ==
  /\ stack # <<>>
  /\ Top.step = Sentinel
  /\ Top.rest = <<>>
  /\ Top.served = listeners
  /\ listeners # <<>>
  /\ last.step > 0
  /\ ~running
  /\ currentStep = 0
  /\ timers = {}
  /\ delivered.step = Sentinel

\* C6: the first step event emitted after a start() carries index 0,
\* whatever the index was when stop() was called.
C6_RestartAtZero == (HasLast /\ last.first) => last.step = 0

C6_Witness ==
  /\ starts = 2
  /\ last.first
  /\ last.step = 0
  /\ last.prevStep > 0

\* C7: at 120 bpm, 16 steps and no swing, consecutive step events of a run
\* are 0.125 s apart and their indices cycle 0, 1, ..., 15, 0, ...
C7_FixedTempo ==
  HasLast =>
    /\ last.first => last.step = 0
    /\ ~last.first =>
         /\ 8 * last.gap = TicksPerSecond
         /\ last.step = (last.prevStep + 1) % 16

C7_Witness ==
  /\ ~last.first
  /\ last.step = 0
  /\ last.prevStep = 15

\* The loop body of _schedule ends: the schedule is advanced.
Advanced ==
  /\ pc = "schedule"
  /\ Len(stack) = 1
  /\ stack' = <<>>

\* C8: an odd-indexed step is emitted at its schedule time plus
\* swing * stepDuration, an even-indexed one at its schedule time, and the
\* schedule advances by the unswung step duration.
C8_Swing ==
  /\ [](JustEmitted =>
          /\ last.step % 2 = 0 => stack[1].time = nextStepTime
          /\ last.step % 2 = 1 =>
               (stack[1].time - nextStepTime) * SwingScale = swing * StepDuration)
  /\ [][Advanced => nextStepTime' = nextStepTime + StepDuration]_vars

C8_Witness ==
  /\ JustEmitted
  /\ last.step = 1
  /\ swing > 0
  /\ last.off > 0
  /\ last.gap = StepDuration + last.off

\* C9: a call of _schedule emits only steps that are due, each the
\* successor of the one before it, it ends, and when it returns no step is
\* due: nextStepTime >= clock + scheduleAheadTime.
C9_CatchUp ==
  /\ [](JustEmitted => nextStepTime < clock + ScheduleAheadTime)
  /\ []((JustEmitted /\ emittedInTick >= 2 /\ last.live) =>
          last.step = (last.prevStep + 1) % steps)
  /\ [][(pc = "schedule" /\ pc' = "idle") =>
          nextStepTime' >= clock' + ScheduleAheadTime]_vars
  /\ (pc = "schedule") ~> (pc = "idle")

C9_Witness ==
  /\ pc = "schedule"
  /\ stack = <<>>
  /\ emittedInTick >= 4
  /\ last.time - 3 * StepDuration < clock
  /\ nextStepTime >= clock + ScheduleAheadTime

\* C10: a change of bpm leaves nextStepTime and the events already emitted
\* as they are, and the next advance of nextStepTime is by the step
\* duration of the new tempo.
C10_TempoChange ==
  /\ [][bpm' # bpm =>
          /\ nextStepTime' = nextStepTime
          /\ last' = last
          /\ Len(stack') = Len(stack)
          /\ \A i \in 1..Len(stack) :
               stack'[i].time = stack[i].time /\ stack'[i].step = stack[i].step]_vars
  /\ [][Advanced =>
          (nextStepTime' - nextStepTime) * bpm = 15 * TicksPerSecond]_vars

C10_Witness ==
  /\ pc = "idle"
  /\ ~last.first
  /\ last.off = 0
  /\ last.gap = 100
  /\ bpm = 400
  /\ nextStepTime = last.time + 30

\* C11: after any sequence of assignments of numbers to bpm and swing, the
\* stored tempo lies in [20, 400] and the stored swing in [0, 0.5].
C11_Clamped ==
  /\ bpm \in MinBpm..MaxBpm
  /\ swing \in MinSwing..MaxSwing

Range(seq) == {seq[i] : i \in 1..Len(seq)}

\* An event is emitted: a forEach begins.
Emitted == Len(stack') > Len(stack)

\* forEach calls the next listener of the innermost dispatch.
Calling ==
  /\ stack # <<>>
  /\ Len(stack') >= Len(stack)
  /\ stack'[Len(stack)].served # Top.served

\* C12: an event (a step or the sentinel of stop()) is dispatched to the
\* listeners registered when it is emitted, in the order of their
\* registration, each once and with the step and time of the event, before
\* the handler that emitted it goes on and before any handler ends.
C12_Dispatch ==
  /\ [][Emitted =>
          LET f == stack'[Len(stack')]
          IN f.all = listeners /\ f.rest = listeners /\ f.served = <<>>]_vars
  /\ [][Len(listeners') > Len(listeners) =>
          \E fn \in Fns : listeners' = Append(listeners, fn)]_vars
  /\ [][Calling =>
          /\ delivered'.fn = Head(Top.rest)
          /\ delivered'.step = Top.step
          /\ stack'[Len(stack)].served = Append(Top.served, Head(Top.rest))]_vars
  /\ [](\A i \in 1..Len(stack) : stack[i].served \o stack[i].rest = stack[i].all)
  /\ [][\A i \in 1..Min(Len(stack), Len(stack')) :
          /\ stack'[i].step = stack[i].step
          /\ stack'[i].time = stack[i].time
          /\ stack'[i].all = stack[i].all]_vars
  /\ [][Len(stack') < Len(stack) => Top.served = Top.all]_vars
  /\ [](pc = "idle" => stack = <<>>)

C12_Witness ==
  /\ Len(stack) = 1
  /\ Top.step = 1
  /\ Len(Top.all) = 2
  /\ Top.all[1] # Top.all[2]
  /\ Top.served = Top.all
  /\ listeners # Top.all
  /\ delivered.fn = Top.all[2]

\* C13: offStep(fn) removes every registration of fn and leaves the other
\* listeners in their order, an event emitted while fn is not registered is
\* not delivered to fn, and offStep(fn) of a function that is not registered
\* leaves the listeners as they are.
C13_OffStep ==
  /\ [][Len(listeners') < Len(listeners) =>
          \E fn \in Range(listeners) :
            /\ fn \notin Range(listeners')
            /\ listeners' = SelectSeq(listeners, LAMBDA l : l # fn)]_vars
  /\ [][Len(listeners') = Len(listeners) => listeners' = listeners]_vars
  /\ [][Emitted =>
          \A fn \in Fns :
            fn \notin Range(listeners) => fn \notin Range(stack'[Len(stack')].all)]_vars
  /\ [][Calling => delivered'.fn \in Range(Top.all)]_vars

C13_Witness ==
  /\ Len(stack) = 1
  /\ Top.step = 1
  /\ Top.served = Top.all
  /\ Len(Top.all) = 1
  /\ last.prevStep = 0
  /\ \E fn \in Fns : fn \notin Range(listeners) /\ fn \notin Range(Top.all)
  /\ delivered.fn \in Range(Top.all)

\* The chorus has processed a sample.
Sampled == fed' = fed + 1

\* C14: in mode 0 every output sample, of either channel, equals the input
\* sample, whatever the delay lines and the LFO phases hold.
C14_Bypass ==
  (fed > 0 /\ tap.mode = 0) => (tap.outL = OutScale * tap.x /\ tap.outR = OutScale * tap.x)

C14_Witness ==
  /\ tap.mode = 0
  /\ tap.x > bufSize
  /\ lfoPhase1 > 0
  /\ lfoPhase2 # PhaseSteps \div 2
  /\ \A i \in 1..bufSize : buf1[i] > 0

\* C15: the write cursor is in [0, capacity) and moves by one modulo the
\* capacity for every sample processed, in the three modes, and not
\* otherwise; the sample is written to both delay lines at the cursor; the
\* capacity is that of the constructor.
C15_Cursor ==
  /\ [](writePos \in 0..(bufSize - 1))
  /\ [](bufSize = BufSizeOf(SampleRate) /\ Len(buf1) = bufSize /\ Len(buf2) = bufSize)
  /\ [][Sampled =>
          /\ writePos' = (writePos + 1) % bufSize
          /\ buf1' = [buf1 EXCEPT ![writePos + 1] = tap'.x]
          /\ buf2' = [buf2 EXCEPT ![writePos + 1] = tap'.x]]_vars
  /\ [][~Sampled => UNCHANGED <<writePos, buf1, buf2>>]_vars

C15_Witness ==
  /\ fed = bufSize + 1
  /\ writePos = 1
  /\ tap.mode = 0
  /\ buf1[1] = fed
  /\ buf2[1] = fed
  /\ lfoPhase1 > 0

\* What _readInterp is to return for the read r of the delay line buf.
GoodRead(r, buf) ==
  LET ri == r.wp * FracScale - r.d
      fl == ri \div FracScale
      i0 == fl % bufSize
      i1 == (i0 + 1) % bufSize
      frac == ri - fl * FracScale
  IN /\ r.i0 = i0
     /\ r.i1 = i1
     /\ r.frac = frac
     /\ frac \in 0..(FracScale - 1)
     /\ r.i0 \in 0..(bufSize - 1)
     /\ r.i1 \in 0..(bufSize - 1)
     /\ r.value = buf[i0 + 1] * (FracScale - frac) + buf[i1 + 1] * frac

\* C16: for every write position and every delay d with 0 <= d < capacity,
\* _readInterp returns buf[i0] * (1 - frac) + buf[i1] * frac with
\* i0 = floor(writePos - d) modulo the capacity, i1 = (i0 + 1) modulo the
\* capacity and frac the fractional part of writePos - d; both are indices
\* of the buffer.
C16_ReadInterp ==
  [][probe' # probe => GoodRead(probe', buf1)]_vars

C16_Witness ==
  /\ fed > bufSize
  /\ probe.d > probe.wp * FracScale
  /\ probe.frac > 0
  /\ probe.i0 = bufSize - 1
  /\ probe.i1 = 0
  /\ probe.value > 0

\* C17: the delay read is between 9 ms and 21 ms in mode 1 and between 4 ms
\* and 12 ms in mode 2; it is at least one sample and less than the
\* capacity, and the read takes neither the sample just written nor one
\* that was overwritten.
InRange(r, lo, hi) ==
  /\ r.d \in DelaySamples(lo * MsScale)..DelaySamples(hi * MsScale)
  /\ r.d >= FracScale
  /\ r.d < bufSize * FracScale
  /\ r.i0 # r.wp
  /\ r.frac > 0 => r.i1 # r.wp
  /\ r.value # NaN

C17_DelayRange ==
  fed > 0 =>
    /\ tap.mode = 1 => (tap.del1 \in (9 * MsScale)..(21 * MsScale) /\ InRange(tap.r1, 9, 21))
    /\ tap.mode = 2 =>
         /\ tap.del1 \in (4 * MsScale)..(12 * MsScale)
         /\ tap.del2 \in (4 * MsScale)..(12 * MsScale)
         /\ InRange(tap.r1, 4, 12)
         /\ InRange(tap.r2, 4, 12)

C17_Witness ==
  /\ tap.mode = 2
  /\ tap.del1 = 12 * MsScale
  /\ tap.del2 = 4 * MsScale
  /\ tap.r1.d > tap.r1.wp * FracScale
  /\ tap.r2.d = 4 * FracScale

\* C18: every call of process() of the three processors writes one output
\* sample for each sample of the output block it was called with, also when
\* the input has no channel.
C18_OneOutputPerSample == done.proc # "none" => done.written = done.requested

Within(v, bound) == -bound <= v /\ v <= bound

Between(new, old, target) ==
  /\ Min(old, target) <= new
  /\ new <= Max(old, target)

\* C19: from the all-zero state the four stage values and the output of
\* the Korg filter stay within [-1, 1] after every sample, for every input,
\* every peak in [0, 4] and every cutoff in [20, 20000]; every stage moves
\* from its old value toward a clipped value by the fraction G, 0 < G < 1.
C19_KorgBounded ==
  /\ [](/\ Within(s1, KorgScale) /\ Within(s2, KorgScale)
         /\ Within(s3, KorgScale) /\ Within(s4, KorgScale)
         /\ Within(ftap.out, KorgScale))
  /\ [](\A c \in CutoffInputs : 0 < KorgG(c) /\ KorgG(c) < KorgScale)
  /\ [][Sampled =>
          /\ Between(s1', s1, Clip(Clip(ftap'.x - 4 * ftap'.peak * s4)))
          /\ Between(s2', s2, Clip(s1'))
          /\ Between(s3', s3, Clip(s2'))
          /\ Between(s4', s4, Clip(s3'))
          /\ ftap'.out = s4']_vars

C19_Witness ==
  /\ fed = MaxFilterSamples
  /\ ftap.x = -1000000
  /\ ftap.peak = 4
  /\ ftap.out # 0
  /\ s1 < -600
  /\ s4 < 0

C21_Clamped ==
  [][/\ (call.proc = "moog" /\ Sampled) =>
          LET fc == MoogFc(ftap'.cutoff)
              fb == MoogFb(ftap'.peak, fc)
          IN /\ 0 <= fc /\ fc <= FcScale - 1
             /\ 0 <= fb /\ fb <= MaxPeak * MoogScale
     /\ (call.proc = "korg" /\ Sampled) =>
          LET c == KorgCutoff(ftap'.cutoff)
              G == KorgG(ftap'.cutoff)
          IN /\ MinCutoff <= c /\ 100 * c <= 49 * SampleRate
             /\ 0 < G /\ G < KorgScale
             /\ 0 <= 4 * ftap'.peak /\ 4 * ftap'.peak <= 4 * MaxPeak]_vars

\* C22: every exponential ramp that a voice or a synth schedules has a
\* target above 0, wherever its controls stand.
C22_PositiveTargets ==
  \A i \in 1..Len(ramps.targets) : ramps.targets[i] > 0

\* The records of a synth, and the number of them for note n.
Records(synth) == IF synth = "Minimoog" THEN activeNotes ELSE voices
Count(vs, n) == Cardinality({i \in 1..Len(vs) : vs[i] = n})
Active(synth, n) == Count(Records(synth), n) > 0
Resumed(synth, n) == CopiesIn(<<synth, n>>, pendingOn') < CopiesIn(<<synth, n>>, pendingOn)
NoteOffStep == pendingOn' = pendingOn

\* C23: a synth holds at most one voice record per note, and at most one
\* voice of a note sounds; a noteOn of a note that is active releases the
\* earlier voice and leaves one record; a noteOff releases one voice of an
\* active note or changes nothing.
C23_OnePerNote ==
  /\ [](\A s \in Synths, n \in Notes :
          /\ Count(Records(s), n) <= 1
          /\ CopiesIn(<<s, n>>, sounding) = Count(Records(s), n))
  /\ [][\A s \in Synths, n \in Notes :
          (Resumed(s, n) /\ Active(s, n)) =>
             /\ Count(released', n) = 1
             /\ Count(Records(s)', n) = 1]_vars
  /\ [][NoteOffStep =>
          \/ /\ released' = <<>>
             /\ UNCHANGED <<activeNotes, voices, voiceOrder, sounding>>
          \/ /\ Len(released') = 1
             /\ \E s \in Synths :
                  /\ Active(s, released'[1])
                  /\ Count(Records(s)', released'[1]) = 0]_vars

\* A note was played again while it was active.
C23_Witness ==
  /\ released = <<1>>
  /\ MapHas(activeNotes, 1)
  /\ MapHas(activeNotes, 2)

\* C24: the Juno-106 never holds more than 6 voices, _voices and
\* _voiceOrder hold the same voices, oldest first, and a new note that finds
\* 6 voices releases the oldest of them and leaves the other five as they
\* are.
C24_VoicePool ==
  /\ [](/\ Len(voices) <= NUM_VOICES
         /\ Len(voiceOrder) = Len(voices)
         /\ Range(voiceOrder) = Range(voices)
         /\ \A n \in Notes : CopiesIn(<<"Juno106", n>>, sounding) = Count(voices, n))
  /\ [][\A n \in Notes :
          Resumed("Juno106", n) =>
             voiceOrder' = Append(SelectSeq(voiceOrder,
                                            LAMBDA v : Count(released', v) = 0), n)]_vars
  /\ [][\A n \in Notes :
          (Resumed("Juno106", n) /\ Len(voices) = NUM_VOICES /\ ~Active("Juno106", n)) =>
             /\ released' = <<voiceOrder[1]>>
             /\ voices' = Append(SelectSeq(voices, LAMBDA v : v # voiceOrder[1]), n)
             /\ Len(voices') = NUM_VOICES]_vars

\* A seventh note has taken the place of the oldest voice.
C24_Witness ==
  /\ Len(voices) = NUM_VOICES
  /\ Len(released) = 1
  /\ Count(voices, released[1]) = 0
  /\ noteOns = MaxNoteOns

\* C25: the Minimoog has at most one active note.
C25_Monophonic == Len(activeNotes) <= 1

\* C28: once noteOff(n) was the last call for note n and no noteOn(n) is
\* left waiting, note n is not active.
C28_OffWins ==
  \A s \in Synths, n \in Notes :
    (<<s, n>> \in offLast /\ CopiesIn(<<s, n>>, pendingOn) = 0) => ~Active(s, n)

\* The envelope e has a value other than 0 at time t.
Ringing(e, t) == e.start <= t /\ t < e.stop /\ (e.cutAt = -1 \/ t < e.cutAt)

\* C26: no open hat triggered before the last closed hat has a value other
\* than 0 at the time of that closed hat or later.
C26_Choke ==
  chAt >= 0 =>
    \A i \in 1..chSeen : \A t \in chAt..(MaxHatTime + DecayOH(10)) :
      ~Ringing(ohEnvs[i], t)

\* C27: the sequencer is running exactly when _timerID holds a timer, that
\* timer is the only live one, and no timer is live when it is stopped.
C27_RunningTimer ==
  /\ running <=> timerID # NoTimer
  /\ Cardinality(timers) <= 1
  /\ running => timers = {timerID}
  /\ ~running => timers = {}

\* The second run, and start() called again while it is running.
C27_Witness ==
  /\ starts = 2
  /\ running
  /\ startNoop
  /\ timers = {timerID}

\* C29: a step event with a step s >= 0 triggers the instruments that are on
\* at s, each once, in the order of the rows, and leaves s the one step
\* shown as playing; a step event with step -1 triggers none and leaves no
\* step shown as playing.
C29_StepListener ==
  /\ [](Cardinality(playing) <= 1)
  /\ [][events' = events + 1 =>
          IF heard'.step = -1
            THEN heard'.keys = <<>> /\ playing' = {}
            ELSE /\ heard'.keys =
                      SelectSeq(InstrumentKeys, LAMBDA k : <<k, heard'.step>> \in pattern)
                 /\ playing' = {heard'.step}
                 /\ lastStep' = heard'.step]_vars

\* What the listeners of the pad do, whatever setEnabled has done: a click
\* that disables the pad clears the accent, a right-click on a disabled pad
\* changes nothing and calls no onChange, and every onChange reports the
\* values the pad has.
PadListeners ==
  [][/\ (lastOp' = "click" /\ ~enabled') => ~accent'
     /\ (lastOp' = "contextmenu" /\ ~enabled) =>
          UNCHANGED <<enabled, accent, active, reported, changes>>
     /\ changes' # changes =>
          reported' = [active |-> enabled', accent |-> accent', none |-> FALSE]]_vars

\* C30: after any clicks, right-clicks and calls of setEnabled the accent of a
\* pad is set only if the pad is enabled, and the listeners of the pad do
\* what PadListeners says.
C30_AccentOnlyEnabled == [](accent => enabled) /\ PadListeners

=========================================================================
